---- MODULE Spec2Model ----
(***************************************************************************)
(* Model of src/bot.py: a Flask webhook endpoint that hands GitHub         *)
(* payloads to coroutines of a discord.py bot, which project them onto     *)
(* thread operations of one Discord channel.                               *)
(*                                                                         *)
(* A coroutine runs on the bot's event loop without interruption up to its *)
(* next awaited platform call (channel.create_thread, thread.send,         *)
(* thread.edit, channel.send): RunTask is one such run.  The platform may  *)
(* accept or reject every call.  Names and messages are sequences of       *)
(* tokens, built the way the f-strings of the source build them.           *)
(***************************************************************************)
EXTENDS Integers, Sequences, FiniteSets, TLC

VARIABLES
    threads,       \* channel.threads: the threads of the configured channel
    chanMsgs,      \* messages sent to the channel itself (channel.send)
    tasks,         \* the coroutines handed to the loop, and their requests
    loop,          \* bot.loop: "running" | "closed"
    channelFound   \* whether get_channel(github_channel_id) finds the channel

vars == <<threads, chanMsgs, tasks, loop, channelFound>>

-----------------------------------------------------------------------------
(* Bounds of the model *)

\* coroutines handed to the loop in one behaviour
MaxTasks == 3
\* coroutines in flight (handed over and not finished) at the same time
MaxActive == 2
\* requests made of the endpoint in one behaviour of HttpSpec
MaxRequests == 2
\* events per behaviour where every shape of payload is tried
MaxDispatch == 1

(* Values the inputs are drawn from *)

Repos == {"acme/widgets"}
PRNums == {4, 42}
Titles == {"Add retry logic", "Fix typo"}
Logins == {"octocat"}
Bodies == {"LGTM"}
Signatures == {"absent", "mismatch", "valid"}

-----------------------------------------------------------------------------
(* Strings as token sequences *)

DigitChar == <<"0", "1", "2", "3", "4", "5", "6", "7", "8", "9">>

RECURSIVE Digits(_)
\* str(n) as it is interpolated by an f-string
Digits(n) ==
    IF n < 10 THEN <<DigitChar[n + 1]>>
    ELSE Digits(n \div 10) \o <<DigitChar[(n % 10) + 1]>>

\* str.startswith
StartsWith(s, p) ==
    /\ Len(p) <= Len(s)
    /\ SubSeq(s, 1, Len(p)) = p

\* f"[{repo_name}] PR #{pr['number']}:"
\* the prefix without the colon that ends the number
ThreadPrefix_no_colon(repo_name, number) ==
    <<"[", repo_name, "]", " ", "PR", " ", "#">> \o Digits(number)

\* f"[{repo_name}] PR #{pr['number']}:"
ThreadPrefix(repo_name, number) ==
    <<"[", repo_name, "]", " ", "PR", " ", "#">> \o Digits(number) \o <<":">>

\* f"[{repo_name}] PR #{pr['number']}: {pr['title']}"
ThreadName(repo_name, pr) ==
    <<"[", repo_name, "]", " ", "PR", " ", "#">> \o Digits(pr.number)
        \o <<":", " ", pr.title>>

ClosedPrefix == <<"[", "CLOSED", "]", " ">>

\* f"[CLOSED] {thread.name}"
ClosedName(name) == ClosedPrefix \o name

RECURSIVE StripClosed(_)
\* a thread name without the "[CLOSED] " prefixes in front of it
StripClosed(name) ==
    IF StartsWith(name, ClosedPrefix)
    THEN StripClosed(SubSeq(name, Len(ClosedPrefix) + 1, Len(name)))
    ELSE name

\* f"A new Pull Request is live here: {pr['html_url']} and created by {pr['user']['login']}."
IntroMessage(pr) ==
    <<"A new Pull Request is live here: ", pr.html_url, " and created by ",
      pr.user.login, ".">>

\* f"PR #{pr['number']} has been {'merged' if pr['merged'] else 'closed'}."
ClosureMessage(pr) ==
    <<"PR #">> \o Digits(pr.number)
        \o <<" has been ", IF pr.merged THEN "merged" ELSE "closed", ".">>

\* f"New comment by {comment['user']['login']}:\n{comment['body']}"
CommentMessage(comment) ==
    <<"New comment by ", comment.user.login, ":", "\n", comment.body>>

\* review['state'].capitalize()
Capitalize(s) ==
    CASE s = "approved" -> "Approved"
      [] s = "changes_requested" -> "Changes_requested"
      [] s = "commented" -> "Commented"
      [] OTHER -> s

\* f"New review by {review['user']['login']} - {review_state}:\n{review_body}"
ReviewMessage(review) ==
    <<"New review by ", review.user.login, " - ", Capitalize(review.state), ":", "\n",
      IF review.body # "" THEN review.body ELSE "No comment provided.">>

\* f"Environment update: {branch} branch has been updated."
EnvironmentMessage(branch) ==
    <<"Environment update: ", branch, " branch has been updated.">>

RECURSIVE LastSegment(_)
\* ref.split('/')[-1]: what follows the last "/" of ref
LastSegment(ref) ==
    IF Len(ref) = 0 THEN <<>>
    ELSE IF ref[Len(ref)] = "/" THEN <<>>
    ELSE LastSegment(SubSeq(ref, 1, Len(ref) - 1)) \o <<ref[Len(ref)]>>

\* the branch test of handle_push knowing main alone
TrackedBranches_main_only == {<<"main">>}

\* branch in ['main', 'test', 'develop']
TrackedBranches == {<<"main">>, <<"test">>, <<"develop">>}

-----------------------------------------------------------------------------
(* Payloads *)

Has(data, key) == key \in DOMAIN data

Url(n) == <<"https://github.com/pull/">> \o Digits(n)

PullRequest(n, title) ==
    [number |-> n, title |-> title, html_url |-> Url(n), user |-> [login |-> "octocat"]]

ClosedPullRequest(n, title, merged) ==
    [number |-> n, title |-> title, html_url |-> Url(n), user |-> [login |-> "octocat"],
     merged |-> merged]

Repository(r) == [full_name |-> r]

Comment(login, body) == [user |-> [login |-> login], body |-> body]

Review(login, state, body) == [user |-> [login |-> login], state |-> state, body |-> body]

OpenedPayloads ==
    {[repository |-> Repository(r), action |-> "opened",
      pull_request |-> PullRequest(42, "Add retry logic")] : r \in Repos}

ClosedPayloads ==
    {[repository |-> Repository(r), action |-> "closed",
      pull_request |-> ClosedPullRequest(42, "Add retry logic", m)] :
        r \in Repos, m \in BOOLEAN}

OtherActionPayloads ==
    {[repository |-> Repository(r), action |-> "synchronize",
      pull_request |-> PullRequest(42, "Add retry logic")] : r \in Repos}

\* pull_request_review: "action" is absent in the shapes that reach handle_pr_review
ReviewPayloads ==
    {[repository |-> Repository(r), review |-> Review(l, "approved", b),
      pull_request |-> PullRequest(42, "Add retry logic")] :
        r \in Repos, l \in Logins, b \in Bodies}

\* issue_comment on a pull request: issue.pull_request is present, pull_request is not
IssueCommentPayloads ==
    {[repository |-> Repository(r), action |-> "created", comment |-> Comment(l, b),
      issue |-> [number |-> n, pull_request |-> [url |-> Url(n)]]] :
        r \in Repos, n \in PRNums, l \in Logins, b \in Bodies}

\* issue_comment on a plain issue: neither pull_request nor issue.pull_request
PlainIssueCommentPayloads ==
    {[repository |-> Repository(r), action |-> "created", comment |-> Comment(l, b),
      issue |-> [number |-> 42]] : r \in Repos, l \in Logins, b \in Bodies}

\* issue_comment on a pull request, the comment deleted
DeletedCommentPayloads ==
    {[repository |-> Repository(r), action |-> "deleted", comment |-> Comment(l, b),
      issue |-> [number |-> 42, pull_request |-> [url |-> Url(42)]]] :
        r \in Repos, l \in Logins, b \in Bodies}

\* a review payload that lacks its pull_request
MalformedPayloads ==
    {[repository |-> Repository(r), review |-> Review(l, "approved", b)] :
        r \in Repos, l \in Logins, b \in Bodies}

PushPayloads ==
    {[repository |-> Repository(r), ref |-> ref] :
        r \in Repos,
        ref \in {<<"refs", "/", "heads", "/", "main">>,
                 <<"refs", "/", "heads", "/", "feature-x">>}}

\* refs of pushes: branches, a tag, nested names, a ref without any "/"
PushRefs ==
    {<<"refs", "/", "heads", "/", "main">>,
     <<"refs", "/", "heads", "/", "test">>,
     <<"refs", "/", "heads", "/", "develop">>,
     <<"refs", "/", "heads", "/", "feature-x">>,
     <<"refs", "/", "heads", "/", "feature", "/", "main">>,
     <<"refs", "/", "heads", "/", "main", "/", "hotfix">>,
     <<"refs", "/", "tags", "/", "v1">>,
     <<"develop">>}

PushRefPayloads == {[repository |-> Repository(r), ref |-> ref] : r \in Repos, ref \in PushRefs}

\* the fields handle_github_event and its handlers ask a payload for
DispatchFields == {"pull_request", "action", "review", "comment", "issue", "ref"}

DispatchActions == {"opened", "closed", "merged", "submitted"}

\* a payload of repository 'acme/widgets' with exactly the given fields
Payload(fields, action) ==
    [k \in fields \cup {"repository"} |->
        CASE k = "repository" -> Repository("acme/widgets")
          [] k = "pull_request" -> ClosedPullRequest(42, "Add retry logic", FALSE)
          [] k = "action" -> action
          [] k = "review" -> Review("octocat", "approved", "LGTM")
          [] k = "comment" -> Comment("octocat", "LGTM")
          [] k = "issue" -> [number |-> 42, pull_request |-> [url |-> Url(42)]]
          [] k = "ref" -> <<"refs", "/", "heads", "/", "main">>]

\* every combination of the fields, the action (where present) of every kind
DispatchPayloads ==
    {Payload(fields, action) : fields \in SUBSET DispatchFields, action \in DispatchActions}

UnknownPayloads == {[repository |-> Repository(r), zen |-> "ping"] : r \in Repos}

Payloads ==
    OpenedPayloads \cup ClosedPayloads \cup OtherActionPayloads \cup ReviewPayloads
        \cup IssueCommentPayloads \cup PushPayloads \cup UnknownPayloads
        \cup PlainIssueCommentPayloads \cup DeletedCommentPayloads \cup MalformedPayloads

-----------------------------------------------------------------------------
(* What one run of a coroutine ends in: a return, a raise, or an awaited call *)

NoCall == [op |-> "none"]

Return(value, log) ==
    [pc |-> "done", pend |-> NoCall, raised |-> "", ret |-> value, log |-> log]

Raise(exception) ==
    [pc |-> "done", pend |-> NoCall, raised |-> exception, ret |-> 0, log |-> <<>>]

Await(pc, call) ==
    [pc |-> pc, pend |-> call, raised |-> "", ret |-> 0, log |-> <<>>]

\* the same block without its except clause
Uncaught(outcome, tag) == outcome

\* try: ... except Exception as e: logger.error(...)
Caught(outcome, tag) ==
    IF outcome.raised # "" THEN Return(0, outcome.log \o <<tag, outcome.raised>>) ELSE outcome

\* logger.info(line), then what follows it
Logged(line, outcome) == [outcome EXCEPT !.log = <<line>> \o @]

\* self.get_channel(self.github_channel_id)
get_channel == IF channelFound THEN "channel" ELSE "None"

\* the first thread of channel.threads whose name starts with the prefix, 0 for None
FirstWithPrefix(prefix) ==
    IF \E i \in 1..Len(threads) : StartsWith(threads[i].name, prefix)
    THEN CHOOSE i \in 1..Len(threads) :
            /\ StartsWith(threads[i].name, prefix)
            /\ \A j \in 1..(i - 1) : ~StartsWith(threads[j].name, prefix)
    ELSE 0

\* discord.utils.get(channel.threads, name=thread_name), 0 for None
FirstWithName(name) ==
    IF \E i \in 1..Len(threads) : threads[i].name = name
    THEN CHOOSE i \in 1..Len(threads) :
            /\ threads[i].name = name
            /\ \A j \in 1..(i - 1) : threads[j].name # name
    ELSE 0

\* get_thread comparing the whole name with the prefix instead of startswith
get_thread_equal(args) ==
    IF Len(args) # 3 THEN Raise("TypeError")
    ELSE IF args[1] = "None" THEN Raise("AttributeError")
    ELSE Return(FirstWithName(ThreadPrefix(args[3], args[2].number)), <<>>)

\* get_thread(self, channel, pr, repo_name), called with the arguments args
get_thread(args) ==
    IF Len(args) # 3 THEN Raise("TypeError")
    ELSE IF args[1] = "None" THEN Raise("AttributeError")
    ELSE Return(FirstWithPrefix(ThreadPrefix(args[3], args[2].number)), <<>>)

\* create_pr_thread(self, pr, repo_name), called with the arguments args
create_pr_thread(args) ==
    IF Len(args) # 2 THEN Raise("TypeError")
    ELSE IF get_channel = "None" THEN Return(0, <<"error: channel not found">>)
    ELSE LET existing_thread == FirstWithName(ThreadName(args[2], args[1]))
         IN  IF existing_thread # 0 THEN Return(existing_thread, <<"info: already exists">>)
             ELSE Await("create_thread",
                        [op |-> "create_thread", name |-> ThreadName(args[2], args[1]),
                         pr |-> args[1]])

\* get_or_create_thread(self, channel, pr)
get_or_create_thread(channel, pr) ==
    LET thread == get_thread(<<channel, pr>>)
    IN  IF thread.raised # "" THEN thread
        ELSE IF thread.ret # 0 THEN thread
        ELSE create_pr_thread(<<pr>>)

\* close_pr_thread(self, pr, thread), called with the arguments args
close_pr_thread(args) ==
    IF Len(args) # 2 THEN Raise("TypeError")
    ELSE IF ~Has(args[1], "merged")
         THEN Return(0, <<"error: close_pr_thread", "KeyError">>)
    ELSE Await("send_closure",
               [op |-> "send", thread |-> args[2], text |-> ClosureMessage(args[1]),
                pr |-> args[1]])

\* handle_pull_request handing create_pr_thread the repository name as well
handle_pull_request_with_repo(data) ==
    LET action == data.action
        pr == data.pull_request
    IN  Logged("info: Handling PR", Caught(
            IF action = "opened" THEN create_pr_thread(<<pr, data.repository.full_name>>)
            ELSE IF action = "closed" THEN close_pr_thread(<<pr>>)
            ELSE Return(0, <<"info: unhandled PR action">>),
            "error: handle_pull_request"))

\* handle_pull_request(self, data)
handle_pull_request(data) ==
    LET action == data.action
        pr == data.pull_request
    IN  Logged("info: Handling PR", Caught(
            IF action = "opened" THEN create_pr_thread(<<pr>>)
            ELSE IF action = "closed" THEN close_pr_thread(<<pr>>)
            ELSE Return(0, <<"info: unhandled PR action">>),
            "error: handle_pull_request"))

\* handle_pr_closure(self, pr)
handle_pr_closure(pr) ==
    Logged("info: Handling closure", Caught(
        LET channel == get_channel
            thread == get_thread(<<channel, pr>>)
        IN  IF thread.raised # "" THEN thread
            ELSE IF thread.ret # 0 THEN close_pr_thread(<<pr, thread.ret>>)
            ELSE Return(0, <<"warning: no thread for closed PR">>),
        "error: handle_pr_closure"))

\* add_review_to_thread(self, pr, review, thread, repo_name)
add_review_to_thread(pr, review, thread, repo_name) ==
    Await("send_review", [op |-> "send", thread |-> thread, text |-> ReviewMessage(review)])

\* add_comment_to_thread(self, pr, comment, thread, repo_name)
add_comment_to_thread(pr, comment, thread, repo_name) ==
    Await("send_comment", [op |-> "send", thread |-> thread, text |-> CommentMessage(comment)])

\* handle_pr_review(self, data)
handle_pr_review(data) ==
    IF ~Has(data, "pull_request") \/ ~Has(data, "repository") THEN Raise("KeyError")
    ELSE
    LET pr == data.pull_request
        review == data.review
        repo_name == data.repository.full_name
    IN  Logged("info: Handling review", Caught(
            LET channel == get_channel
                thread == get_thread(<<channel, pr, repo_name>>)
            IN  IF thread.raised # "" THEN thread
                ELSE IF thread.ret # 0
                     THEN add_review_to_thread(pr, review, thread.ret, repo_name)
                ELSE Return(0, <<"warning: no thread for review">>),
            "error: handle_pr_review"))

\* handle_pr_comment(self, data)
handle_pr_comment(data) ==
    IF ~Has(data, "repository") THEN Raise("KeyError")
    ELSE IF ~Has(data, "issue") /\ ~Has(data, "pull_request")
         THEN Return(0, <<"warning: no PR number">>)
    ELSE
    LET repo_name == data.repository.full_name
        pr_number == IF Has(data, "issue") THEN data.issue.number
                     ELSE data.pull_request.number
        comment == data.comment
    IN  Logged("info: Handling comment", Caught(
            LET channel == get_channel
                thread == get_thread(<<channel, [number |-> pr_number], repo_name>>)
            IN  IF thread.raised # "" THEN thread
                ELSE IF thread.ret # 0
                     THEN add_comment_to_thread([number |-> pr_number], comment,
                                                thread.ret, repo_name)
                ELSE Return(0, <<"warning: no thread for comment">>),
            "error: handle_pr_comment"))

\* send_environment_update sending whether or not get_channel gave a channel
send_environment_update_unchecked(branch) ==
    Await("channel_send", [op |-> "channel_send", text |-> EnvironmentMessage(branch)])

\* send_environment_update(self, branch)
send_environment_update(branch) ==
    IF get_channel = "None" THEN Raise("AttributeError")
    ELSE Await("channel_send", [op |-> "channel_send", text |-> EnvironmentMessage(branch)])

\* handle_push(self, data)
handle_push(data) ==
    LET branch == LastSegment(data.ref)
    IN  Logged("info: Handling push", Caught(
            IF branch \in TrackedBranches
            THEN send_environment_update(IF Len(branch) = 1 THEN branch[1] ELSE "")
            ELSE Return(0, <<"info: push to non-environment branch">>),
            "error: handle_push"))

\* handle_github_event asking for the review before the pull request and its action
handle_github_event_review_first(data) ==
    Caught(
        IF Has(data, "review") THEN handle_pr_review(data)
        ELSE IF Has(data, "pull_request") /\ Has(data, "action")
        THEN IF data.action = "opened" THEN handle_pull_request(data)
             ELSE IF data.action \in {"closed", "merged"}
                  THEN handle_pr_closure(data.pull_request)
             ELSE Return(0, <<>>)
        ELSE IF Has(data, "comment") THEN handle_pr_comment(data)
        ELSE IF Has(data, "ref") THEN handle_push(data)
        ELSE Return(0, <<"warning: unknown event type">>),
        "error: handle_github_event")

\* handle_github_event(self, data)
handle_github_event(data) ==
    Caught(
        IF Has(data, "pull_request") /\ Has(data, "action")
        THEN IF data.action = "opened" THEN handle_pull_request(data)
             ELSE IF data.action \in {"closed", "merged"}
                  THEN handle_pr_closure(data.pull_request)
             ELSE Return(0, <<>>)
        ELSE IF Has(data, "review") THEN handle_pr_review(data)
        ELSE IF Has(data, "comment") THEN handle_pr_comment(data)
        ELSE IF Has(data, "ref") THEN handle_push(data)
        ELSE Return(0, <<"warning: unknown event type">>),
        "error: handle_github_event")

\* the attributes __init__ gives the bot
BotAttributes == {"github_channel_id", "github_api_base", "github_token"}

\* sync_repo(self), the origin answering its request with status and the list prs
sync_repo(prs, status) ==
    IF "github_repo" \notin BotAttributes THEN Raise("AttributeError")
    ELSE IF status # 200 THEN Return(0, <<"error: Failed to fetch PRs">>)
    ELSE IF Len(prs) = 0 THEN Return(0, <<"info: Found 0 open PRs">>)
    ELSE create_pr_thread(<<prs[1]>>)

-----------------------------------------------------------------------------
(* Tasks: one per coroutine handed to the loop *)

IsTask(h) == h \in 1..Len(tasks)

InFlight == {h \in 1..Len(tasks) : tasks[h].pc \notin {"done", "cancelled", "unscheduled"}}

\* a coroutine as it is handed to the loop; with: the coroutines then in flight
NewTask(origin, fn, data, sig, scheduled) ==
    [origin |-> origin, fn |-> fn, data |-> data, sig |-> sig, with |-> InFlight,
     http |-> IF scheduled THEN 0 ELSE 500,
     waited |-> "",
     pc |-> IF scheduled THEN "start" ELSE "unscheduled",
     pend |-> NoCall, raised |-> "", ret |-> 0, log |-> <<>>, ops |-> <<>>]

\* another coroutine may be handed to the loop
Admits ==
    /\ Len(tasks) < MaxTasks
    /\ Cardinality(InFlight) < MaxActive

\* The task after a run of its coroutine that ended in outcome
Ran(t, outcome) ==
    [t EXCEPT !.pc = outcome.pc, !.pend = outcome.pend, !.raised = outcome.raised,
              !.ret = IF t.fn = "handle_github_event" THEN 0 ELSE outcome.ret,
              !.log = t.log \o outcome.log]

\* The task after the platform answered its awaited call and it ran on to outcome
Resumed(t, ok, outcome) ==
    [Ran(t, outcome) EXCEPT !.ops = Append(t.ops, [call |-> t.pend, ok |-> ok])]

\* The first run of a task's coroutine, up to its first awaited platform call
FirstRun(t) ==
    CASE t.fn = "handle_github_event" -> handle_github_event(t.data)
      [] t.fn = "create_pr_thread" -> create_pr_thread(<<t.data.pr, t.data.repo_name>>)
      [] t.fn = "get_or_create_thread" -> get_or_create_thread(get_channel, t.data.pr)
      [] t.fn = "close_pr_thread" -> close_pr_thread(<<t.data.pr, t.data.thread>>)
      [] t.fn = "sync_repo" -> sync_repo(t.data.prs, t.data.status)

-----------------------------------------------------------------------------
(* Actions *)

Init ==
    /\ threads = <<>>
    /\ chanMsgs = <<>>
    /\ tasks = <<>>
    /\ loop = "running"
    /\ channelFound \in BOOLEAN

\* webhook(), lines 249-253: the request's JSON is handed to the bot's loop
\* whatever its signature header; run_coroutine_threadsafe is outside the try
Webhook(data, sig) ==
    /\ Admits
    /\ tasks' = Append(tasks, NewTask("webhook", "handle_github_event", data, sig,
                                      loop = "running"))
    /\ UNCHANGED <<threads, chanMsgs, loop, channelFound>>

\* webhook() waiting with future.result() and no timeout
FutureResult_no_timeout(h) ==
    /\ IsTask(h)
    /\ tasks[h].origin = "webhook"
    /\ tasks[h].http = 0
    /\ \/ /\ tasks[h].pc = "done"
          /\ tasks' = [tasks EXCEPT ![h].http = 200, ![h].waited = "result"]
       \/ /\ tasks[h].pc = "cancelled"
          /\ tasks' = [tasks EXCEPT ![h].http = 200, ![h].waited = "cancelled"]
    /\ UNCHANGED <<threads, chanMsgs, loop, channelFound>>

\* webhook(), lines 254-261: future.result(timeout=60), every exception logged
FutureResult(h) ==
    /\ IsTask(h)
    /\ tasks[h].origin = "webhook"
    /\ tasks[h].http = 0
    /\ \/ /\ tasks[h].pc = "done"
          /\ tasks' = [tasks EXCEPT ![h].http = 200, ![h].waited = "result"]
       \/ /\ tasks[h].pc = "cancelled"
          /\ tasks' = [tasks EXCEPT ![h].http = 200, ![h].waited = "cancelled"]
       \/ /\ tasks[h].pc \notin {"done", "cancelled"}
          /\ tasks' = [tasks EXCEPT ![h].http = 200, ![h].waited = "timeout"]
    /\ UNCHANGED <<threads, chanMsgs, loop, channelFound>>

\* a direct call of create_pr_thread(pr, repo_name)
CallCreatePrThread(pr, repo_name) ==
    /\ Admits
    /\ loop = "running"
    /\ tasks' = Append(tasks, NewTask("call", "create_pr_thread",
                                      [pr |-> pr, repo_name |-> repo_name], "", TRUE))
    /\ UNCHANGED <<threads, chanMsgs, loop, channelFound>>

\* a direct call of get_or_create_thread(channel, pr)
CallGetOrCreateThread(pr) ==
    /\ Admits
    /\ loop = "running"
    /\ tasks' = Append(tasks, NewTask("call", "get_or_create_thread", [pr |-> pr], "", TRUE))
    /\ UNCHANGED <<threads, chanMsgs, loop, channelFound>>

\* a direct call of close_pr_thread(pr, thread) on a thread of the channel
CallClosePrThread(pr, thread) ==
    /\ Admits
    /\ loop = "running"
    /\ thread \in 1..Len(threads)
    /\ \E r \in Repos : StartsWith(StripClosed(threads[thread].name),
                                   ThreadPrefix(r, pr.number))
    /\ tasks' = Append(tasks, NewTask("call", "close_pr_thread",
                                      [pr |-> pr, thread |-> thread], "", TRUE))
    /\ UNCHANGED <<threads, chanMsgs, loop, channelFound>>

\* setup_hook or the sync command awaits sync_repo(); the origin will answer its
\* request for the open pull requests with status and the list prs
CallSyncRepo(prs, status) ==
    /\ Admits
    /\ loop = "running"
    /\ tasks' = Append(tasks, NewTask("call", "sync_repo",
                                      [prs |-> prs, status |-> status], "", TRUE))
    /\ UNCHANGED <<threads, chanMsgs, loop, channelFound>>

\* the loop runs a new coroutine up to its first awaited platform call
RunTask(h) ==
    /\ IsTask(h)
    /\ loop = "running"
    /\ tasks[h].pc = "start"
    /\ tasks' = [tasks EXCEPT ![h] = Ran(tasks[h], FirstRun(tasks[h]))]
    /\ UNCHANGED <<threads, chanMsgs, loop, channelFound>>

\* create_pr_thread, lines 211-221: channel.create_thread answers
CreateThreadReturns(h, ok) ==
    /\ IsTask(h)
    /\ loop = "running"
    /\ tasks[h].pc = "create_thread"
    /\ LET t == tasks[h]
           new == Len(threads) + 1
       IN  IF ok
           THEN /\ threads' = Append(threads,
                        [name |-> t.pend.name, archived |-> FALSE, locked |-> FALSE,
                         msgs |-> <<>>])
                /\ tasks' = [tasks EXCEPT ![h] =
                        Resumed(t, TRUE,
                            Await("send_intro",
                                  [op |-> "send", thread |-> new,
                                   text |-> IntroMessage(t.pend.pr)]))]
           ELSE /\ threads' = threads
                /\ tasks' = [tasks EXCEPT ![h] =
                        Resumed(t, FALSE, Return(0, <<"error: create_pr_thread">>))]
    /\ UNCHANGED <<chanMsgs, loop, channelFound>>

\* thread.send answers: lines 216-218, 121-122, 186-187, 192-193
SendReturns(h, ok) ==
    /\ IsTask(h)
    /\ loop = "running"
    /\ tasks[h].pc \in {"send_intro", "send_closure", "send_review", "send_comment"}
    /\ LET t == tasks[h]
           i == t.pend.thread
       IN  /\ threads' = IF ok THEN [threads EXCEPT ![i].msgs = Append(@, t.pend.text)]
                         ELSE threads
           /\ tasks' = [tasks EXCEPT ![h] =
                Resumed(t, ok,
                    IF ~ok THEN Return(0, <<"error: " \o t.pc>>)
                    ELSE IF t.pc = "send_intro" THEN Return(i, <<>>)
                    ELSE IF t.pc = "send_closure"
                         THEN Await("edit", [op |-> "edit", thread |-> i,
                                             name |-> ClosedName(threads[i].name)])
                    ELSE Return(0, <<>>))]
    /\ UNCHANGED <<chanMsgs, loop, channelFound>>

\* close_pr_thread, lines 122-129: thread.edit(archived, locked, name) answers
EditReturns(h, ok) ==
    /\ IsTask(h)
    /\ loop = "running"
    /\ tasks[h].pc = "edit"
    /\ LET t == tasks[h]
           i == t.pend.thread
       IN  /\ threads' = IF ok THEN [threads EXCEPT ![i].archived = TRUE,
                                                    ![i].locked = TRUE,
                                                    ![i].name = t.pend.name]
                         ELSE threads
           /\ tasks' = [tasks EXCEPT ![h] =
                Resumed(t, ok, Return(0, IF ok THEN <<>> ELSE <<"error: close_pr_thread">>))]
    /\ UNCHANGED <<chanMsgs, loop, channelFound>>

\* send_environment_update, lines 234-235: channel.send answers
ChannelSendReturns(h, ok) ==
    /\ IsTask(h)
    /\ loop = "running"
    /\ tasks[h].pc = "channel_send"
    /\ chanMsgs' = IF ok THEN Append(chanMsgs, tasks[h].pend.text) ELSE chanMsgs
    /\ tasks' = [tasks EXCEPT ![h] =
            Resumed(tasks[h], ok, Return(0, IF ok THEN <<>> ELSE <<"error: handle_push">>))]
    /\ UNCHANGED <<threads, loop, channelFound>>

\* bot.run returns in the bot thread: the loop is closed, what it still ran is cancelled
BotRunExit ==
    /\ loop = "running"
    /\ loop' = "closed"
    /\ tasks' = [h \in 1..Len(tasks) |->
                    IF tasks[h].pc \in {"done", "unscheduled"} THEN tasks[h]
                    ELSE [tasks[h] EXCEPT !.pc = "cancelled", !.pend = NoCall]]
    /\ UNCHANGED <<threads, chanMsgs, channelFound>>

ClosedPullRequests ==
    {ClosedPullRequest(n, "Add retry logic", m) : n \in PRNums, m \in BOOLEAN}

PullRequests ==
    {PullRequest(42, t) : t \in Titles} \cup {PullRequest(4, "Add retry logic")}

\* The bot's side: payloads handed over by accepted requests, direct calls of the
\* thread operations, and the loop running their coroutines
Next ==
    \/ \E data \in Payloads : Webhook(data, "valid")
    \/ \E pr \in PullRequests, r \in Repos : CallCreatePrThread(pr, r)
    \/ CallGetOrCreateThread(PullRequest(42, "Add retry logic"))
    \/ \E pr \in ClosedPullRequests, i \in 1..MaxTasks : CallClosePrThread(pr, i)
    \/ \E h \in 1..MaxTasks : RunTask(h)
    \/ \E h \in 1..MaxTasks, ok \in BOOLEAN : CreateThreadReturns(h, ok)
    \/ \E h \in 1..MaxTasks, ok \in BOOLEAN : SendReturns(h, ok)
    \/ \E h \in 1..MaxTasks, ok \in BOOLEAN : EditReturns(h, ok)
    \/ \E h \in 1..MaxTasks, ok \in BOOLEAN : ChannelSendReturns(h, ok)

Spec == Init /\ [][Next]_vars

\* what the origin answers when asked for the open pull requests
OpenPullRequestLists ==
    {<<>>, <<PullRequest(42, "Add retry logic")>>,
     <<PullRequest(4, "Add retry logic"), PullRequest(42, "Add retry logic")>>}

\* Synchronisations, interleaved with events and creations of threads
SyncNext ==
    \/ \E prs \in OpenPullRequestLists, status \in {200, 403} : CallSyncRepo(prs, status)
    \/ \E data \in OpenedPayloads \cup ReviewPayloads : Webhook(data, "valid")
    \/ \E r \in Repos : CallCreatePrThread(PullRequest(42, "Add retry logic"), r)
    \/ \E h \in 1..MaxTasks : RunTask(h)
    \/ \E h \in 1..MaxTasks, ok \in BOOLEAN : CreateThreadReturns(h, ok)
    \/ \E h \in 1..MaxTasks, ok \in BOOLEAN : SendReturns(h, ok)

SyncSpec == Init /\ [][SyncNext]_vars

\* One event of any shape, after or beside the creation of a thread for its PR
DispatchNext ==
    \/ \E data \in DispatchPayloads :
            /\ Cardinality({h \in 1..Len(tasks) : tasks[h].origin = "webhook"}) < MaxDispatch
            /\ Webhook(data, "valid")
    \/ \E r \in Repos :
            /\ \A h \in 1..Len(tasks) : tasks[h].origin = "webhook"
            /\ CallCreatePrThread(PullRequest(42, "Add retry logic"), r)
    \/ \E h \in 1..MaxTasks : RunTask(h)
    \/ \E h \in 1..MaxTasks, ok \in BOOLEAN : CreateThreadReturns(h, ok)
    \/ \E h \in 1..MaxTasks, ok \in BOOLEAN : SendReturns(h, ok)
    \/ \E h \in 1..MaxTasks, ok \in BOOLEAN : ChannelSendReturns(h, ok)

DispatchSpec == Init /\ [][DispatchNext]_vars

\* Pushes to any ref, beside the creation of threads the pushes must leave alone
PushNext ==
    \/ \E data \in PushRefPayloads : Webhook(data, "valid")
    \/ \E r \in Repos : CallCreatePrThread(PullRequest(42, "Add retry logic"), r)
    \/ \E h \in 1..MaxTasks : RunTask(h)
    \/ \E h \in 1..MaxTasks, ok \in BOOLEAN : CreateThreadReturns(h, ok)
    \/ \E h \in 1..MaxTasks, ok \in BOOLEAN : SendReturns(h, ok)
    \/ \E h \in 1..MaxTasks, ok \in BOOLEAN : ChannelSendReturns(h, ok)

PushSpec == Init /\ [][PushNext]_vars

\* The endpoint's side: requests with any signature header, the request threads
\* waiting for their coroutines, and the bot thread ending
HttpNext ==
    \/ \E data \in Payloads, sig \in Signatures :
            Len(tasks) < MaxRequests /\ Webhook(data, sig)
    \/ \E h \in 1..MaxRequests : FutureResult(h)
    \/ \E h \in 1..MaxRequests : RunTask(h)
    \/ \E h \in 1..MaxRequests, ok \in BOOLEAN : ChannelSendReturns(h, ok)
    \/ BotRunExit

HttpSpec == Init /\ [][HttpNext]_vars

\* The endpoint's side, its request threads never blocked for good: future.result
\* returns or times out within its 60 seconds
HttpLiveSpec == HttpSpec /\ \A h \in 1..MaxRequests : WF_vars(FutureResult(h))

-----------------------------------------------------------------------------
(* Vocabulary of the properties *)

Tasks == 1..MaxTasks

IsEvent(h) == IsTask(h) /\ tasks[h].origin = "webhook"

\* task h starts running in this step
Starts(h) == IsTask(h) /\ tasks[h].pc = "start" /\ tasks'[h].pc # "start"

\* the platform answers the call task h awaits in this step
Answers(h, pc) == IsTask(h) /\ tasks[h].pc = pc /\ tasks'[h].pc # pc /\ loop' = "running"

\* the platform accepted the call answered in this step
Accepted(h) == tasks'[h].ops[Len(tasks'[h].ops)].ok

\* the threads of the channel named as the thread of PR number of repo
Named(repo, number) ==
    {i \in 1..Len(threads) :
        StartsWith(threads[i].name, <<"[", repo, "]", " ", "PR", " ", "#">>
                                        \o Digits(number) \o <<":">>)}

\* the threads closed as the thread of PR number of repo
ClosedOf(repo, number) ==
    {i \in 1..Len(threads) :
        /\ threads[i].archived
        /\ threads[i].locked
        /\ StartsWith(threads[i].name, ClosedPrefix \o <<"[", repo, "]", " ", "PR", " ", "#">>
                                        \o Digits(number) \o <<":">>)}

\* the platform calls task h made and the platform accepted
AcceptedCalls(h, op) ==
    {k \in 1..Len(tasks[h].ops) : tasks[h].ops[k].call.op = op /\ tasks[h].ops[k].ok}

IsOpened(h) ==
    IsEvent(h) /\ Has(tasks[h].data, "pull_request") /\ Has(tasks[h].data, "action")
        /\ tasks[h].data.action = "opened"

IsClosed(h) ==
    IsEvent(h) /\ Has(tasks[h].data, "pull_request") /\ Has(tasks[h].data, "action")
        /\ tasks[h].data.action = "closed"

IsIssueComment(h) ==
    IsEvent(h) /\ Has(tasks[h].data, "comment") /\ Has(tasks[h].data, "issue")
        /\ ~Has(tasks[h].data, "pull_request") /\ ~Has(tasks[h].data, "review")
        /\ Has(tasks[h].data.issue, "pull_request")
        /\ Has(tasks[h].data, "action") /\ tasks[h].data.action = "created"

IsReview(h) ==
    IsEvent(h) /\ Has(tasks[h].data, "review") /\ ~Has(tasks[h].data, "action")
        /\ Has(tasks[h].data, "pull_request")

\* the event of task h names a pull request
RefersToPR(h) ==
    IsEvent(h) /\ (Has(tasks[h].data, "pull_request") \/ Has(tasks[h].data, "issue"))

\* the PR number an event refers to
NumberOf(h) ==
    IF Has(tasks[h].data, "pull_request") THEN tasks[h].data.pull_request.number
    ELSE tasks[h].data.issue.number

RepoOf(h) == tasks[h].data.repository.full_name

-----------------------------------------------------------------------------
(* C1 *)

\* C1 (as claimed): when get_or_create_thread is called for a pull request after an
\* earlier call for the same pull request has returned, and the channel is found, the
\* second call returns the thread the first returned, raises nothing, creates no
\* thread, and exactly one thread of the channel carries the pull request's prefix.
C1_SecondCallSameThread ==
    [][\A i \in Tasks, j \in Tasks :
        (/\ i # j /\ IsTask(i) /\ IsTask(j)
         /\ tasks[i].fn = "get_or_create_thread" /\ tasks[j].fn = "get_or_create_thread"
         /\ tasks[i].data = tasks[j].data
         /\ tasks[i].pc = "done"
         /\ channelFound
         /\ Starts(j))
        => /\ tasks'[j].pc = "done"
           /\ tasks'[j].raised = ""
           /\ tasks[i].raised = ""
           /\ tasks'[j].ret # 0
           /\ tasks'[j].ret = tasks[i].ret
           /\ threads' = threads
           /\ Cardinality(Named("acme/widgets", tasks[j].data.pr.number)) = 1]_vars

-----------------------------------------------------------------------------
(* C2 *)

\* C2: when only webhook handlers have run, no repository and PR number has two
\* threads carrying its prefix, and two handlers for the same repository and PR
\* number have between them created at most one thread, however they interleaved.
C2_AtMostOneThread ==
    /\ (\A h \in 1..Len(tasks) : tasks[h].origin = "webhook")
            => \A r \in Repos, n \in PRNums : Cardinality(Named(r, n)) <= 1
    /\ \A h1 \in Tasks, h2 \in Tasks :
            (/\ h1 # h2 /\ RefersToPR(h1) /\ RefersToPR(h2)
             /\ RepoOf(h1) = RepoOf(h2) /\ NumberOf(h1) = NumberOf(h2))
            => Cardinality(AcceptedCalls(h1, "create_thread"))
                    + Cardinality(AcceptedCalls(h2, "create_thread")) <= 1

\* two 'opened' handlers for the same pull request were in flight together, no thread
\* existed for it, and both have finished
C2_Witness ==
    \E h1 \in Tasks, h2 \in Tasks :
        /\ h1 # h2 /\ IsOpened(h1) /\ IsOpened(h2)
        /\ RepoOf(h1) = RepoOf(h2) /\ NumberOf(h1) = NumberOf(h2)
        /\ h1 \in tasks[h2].with
        /\ tasks[h1].pc = "done" /\ tasks[h2].pc = "done"
        /\ channelFound
        /\ \A h \in 1..Len(tasks) : tasks[h].origin = "webhook"
        /\ Named(RepoOf(h1), NumberOf(h1)) = {}

-----------------------------------------------------------------------------
(* C3 *)

\* C3 (as claimed): a request without a signature header is answered 400, one with a
\* mismatching signature 401, and for neither is a handler dispatched or a platform
\* call made.
C3_FailsClosed ==
    \A h \in Tasks :
        (IsEvent(h) /\ tasks[h].sig \in {"absent", "mismatch"})
        => /\ tasks[h].http \in {0, IF tasks[h].sig = "absent" THEN 400 ELSE 401}
           /\ tasks[h].pc = "unscheduled"
           /\ tasks[h].pend = NoCall
           /\ tasks[h].ops = <<>>

-----------------------------------------------------------------------------
(* C4 *)

\* C4 (as claimed): a request with a valid signature is answered 200 and nothing
\* else, also when handing its payload to the bot's loop fails.
C4_Never5xx ==
    \A h \in Tasks :
        (IsEvent(h) /\ tasks[h].sig = "valid") => tasks[h].http \in {0, 200}

-----------------------------------------------------------------------------
(* C5 *)

\* C5: every request whose handler was dispatched is in the end answered 200, whether
\* or not the handler ever completes.
C5_EventuallyAcknowledged ==
    \A h \in 1..MaxRequests :
        (IsEvent(h) /\ tasks[h].http = 0) ~> (IsEvent(h) /\ tasks[h].http = 200)

\* a request answered 200 after the wait timed out, its handler still not finished
C5_Witness ==
    \E h \in 1..MaxRequests :
        /\ IsEvent(h)
        /\ tasks[h].http = 200
        /\ tasks[h].waited = "timeout"
        /\ tasks[h].pc \notin {"done", "cancelled"}

-----------------------------------------------------------------------------
(* C6 *)

\* C6 (as claimed): once an 'opened' event is processed, with the channel found, every
\* platform call accepted and no thread made by anything but event handlers, a thread
\* named "[{repository}] PR #{number}: {title}" exists and holds the introductory
\* message with the PR's URL and author.
C6_OpenedCreatesThread ==
    \A h \in Tasks :
        (/\ IsOpened(h)
         /\ tasks[h].pc = "done"
         /\ channelFound
         /\ \A k \in 1..Len(tasks) : tasks[k].origin = "webhook"
         /\ \A k \in 1..Len(tasks[h].ops) : tasks[h].ops[k].ok)
        => \E i \in 1..Len(threads) :
            LET pr == tasks[h].data.pull_request
            IN  /\ threads[i].name = <<"[", RepoOf(h), "]", " ", "PR", " ", "#">>
                                        \o Digits(pr.number) \o <<":", " ", pr.title>>
                /\ \E m \in 1..Len(threads[i].msgs) :
                        /\ \E k \in 1..Len(threads[i].msgs[m]) :
                                threads[i].msgs[m][k] = pr.html_url
                        /\ \E k \in 1..Len(threads[i].msgs[m]) :
                                threads[i].msgs[m][k] = pr.user.login

-----------------------------------------------------------------------------
(* C7 *)

\* C7 (as claimed): a 'closed' event that starts while the channel is found and an
\* open thread carries the PR's prefix sends that thread the closure message, "merged"
\* if the payload's merged flag is set and "closed" if not; once that is accepted the
\* thread is edited; once that is accepted the thread is archived, locked and its
\* name is the old name behind "[CLOSED] ".
C7_ClosedEventClosesThread ==
    [][\A h \in Tasks :
        /\ (/\ IsClosed(h) /\ Starts(h) /\ channelFound
            /\ \E i \in Named(RepoOf(h), NumberOf(h)) : ~threads[i].archived)
           => /\ tasks'[h].pc = "send_closure"
              /\ tasks'[h].pend.thread \in Named(RepoOf(h), NumberOf(h))
              /\ tasks'[h].pend.text =
                    <<"PR #">> \o Digits(NumberOf(h)) \o
                    <<" has been ",
                      IF tasks[h].data.pull_request.merged THEN "merged" ELSE "closed",
                      ".">>
        /\ (IsClosed(h) /\ Answers(h, "send_closure") /\ Accepted(h))
           => tasks'[h].pc = "edit"
        /\ (IsClosed(h) /\ Answers(h, "edit") /\ Accepted(h))
           => LET i == tasks[h].pend.thread
              IN  /\ threads'[i].archived /\ threads'[i].locked
                  /\ threads'[i].name = ClosedPrefix \o threads[i].name]_vars

-----------------------------------------------------------------------------
(* C8 *)

\* C8 (as claimed): close_pr_thread applied to a thread that is already archived and
\* renamed raises nothing and leaves the thread's name and flags as they were: the
\* name keeps exactly one "[CLOSED] " prefix.
C8_CloseTwiceSameName ==
    [][\A h \in Tasks :
        (/\ IsTask(h) /\ tasks[h].fn = "close_pr_thread"
         /\ Answers(h, "edit") /\ Accepted(h)
         /\ threads[tasks[h].pend.thread].archived
         /\ StartsWith(threads[tasks[h].pend.thread].name, ClosedPrefix))
        => LET i == tasks[h].pend.thread
           IN  /\ tasks'[h].raised = ""
               /\ threads'[i].name = threads[i].name
               /\ ~StartsWith(threads'[i].name, ClosedPrefix \o ClosedPrefix)
               /\ threads'[i].archived /\ threads'[i].locked]_vars

-----------------------------------------------------------------------------
(* C9 *)

\* C9 (as claimed): a review or comment event that starts while the channel is found
\* and the PR's thread is closed (archived, locked, renamed with "[CLOSED] "), and no
\* other thread carries the PR's prefix, goes on to send its message to that closed
\* thread, and creates no thread.
C9_ClosedThreadStillResolved ==
    [][\A h \in Tasks :
        (/\ IsReview(h) \/ IsIssueComment(h)
         /\ Starts(h) /\ channelFound
         /\ ClosedOf(RepoOf(h), NumberOf(h)) # {}
         /\ Named(RepoOf(h), NumberOf(h)) = {})
        => /\ tasks'[h].pc \in {"send_review", "send_comment"}
           /\ tasks'[h].pend.op = "send"
           /\ tasks'[h].pend.thread \in ClosedOf(RepoOf(h), NumberOf(h))
           /\ threads' = threads]_vars

-----------------------------------------------------------------------------
(* C10 *)

\* the first thread carrying the prefix of the PR an issue comment refers to
C10_Thread(h) ==
    CHOOSE i \in Named(RepoOf(h), NumberOf(h)) :
        \A j \in Named(RepoOf(h), NumberOf(h)) : i <= j

\* what an issue-comment event does, for the text sep between "{login}:" and the body
C10_Appends(sep) ==
    \A h \in Tasks :
        /\ (/\ IsIssueComment(h) /\ Starts(h) /\ channelFound
            /\ Named(RepoOf(h), NumberOf(h)) # {})
           => /\ tasks'[h].pc = "send_comment"
              /\ tasks'[h].pend = [op |-> "send", thread |-> C10_Thread(h),
                                   text |-> <<"New comment by ",
                                              tasks[h].data.comment.user.login, ":", sep,
                                              tasks[h].data.comment.body>>]
              /\ threads' = threads
        /\ (IsIssueComment(h) /\ Answers(h, "send_comment"))
           => LET i == tasks[h].pend.thread
              IN  /\ tasks'[h].pc = "done"
                  /\ Len(tasks'[h].ops) = 1
                  /\ tasks'[h].ops[1].call.op = "send"
                  /\ Len(threads') = Len(threads)
                  /\ \A j \in 1..Len(threads) : j # i => threads'[j] = threads[j]
                  /\ threads'[i].name = threads[i].name
                  /\ threads'[i].archived = threads[i].archived
                  /\ threads'[i].msgs =
                        IF Accepted(h) THEN Append(threads[i].msgs, tasks[h].pend.text)
                        ELSE threads[i].msgs

\* C10 (as claimed): an issue-comment event on a pull request whose thread exists
\* appends exactly one message "New comment by {login}: {body}" to that thread and
\* creates no thread.
C10_AppendsOneComment_Claimed == [][C10_Appends(" ")]_vars

\* C10 (amended): an issue-comment event on a pull request, started while the channel
\* is found and a thread carries the PR's prefix, makes exactly one platform call: it
\* sends "New comment by {login}:\n{body}" (colon, newline, body) to the first such
\* thread; the message is appended, once, if the platform accepts the call and not at
\* all if it rejects it; no thread is created and no other thread changes.
C10_AppendsOneComment == [][C10_Appends("\n")]_vars

\* an issue-comment handler has finished and its one message is the last of the thread
C10_Witness ==
    \E h \in Tasks :
        /\ IsIssueComment(h)
        /\ tasks[h].pc = "done"
        /\ Len(tasks[h].ops) = 1
        /\ tasks[h].ops[1].ok
        /\ LET i == tasks[h].ops[1].call.thread
           IN  /\ i \in Named(RepoOf(h), NumberOf(h))
               /\ Len(threads[i].msgs) >= 2
               /\ threads[i].msgs[Len(threads[i].msgs)]
                    = <<"New comment by ", "octocat", ":", "\n", "LGTM">>

-----------------------------------------------------------------------------
(* C11 *)

IsPlainIssueComment(h) ==
    IsEvent(h) /\ Has(tasks[h].data, "comment") /\ Has(tasks[h].data, "issue")
        /\ ~Has(tasks[h].data, "pull_request") /\ ~Has(tasks[h].data, "review")
        /\ ~Has(tasks[h].data.issue, "pull_request")

\* C11 (as claimed): a comment event on a plain issue (comment present, neither
\* pull_request nor issue.pull_request) ends without a platform call, whatever the
\* channel holds: no message is sent and no thread created.
C11_PlainIssueCommentIgnored ==
    [][\A h \in Tasks :
        (IsPlainIssueComment(h) /\ Starts(h))
        => /\ tasks'[h].pc = "done"
           /\ tasks'[h].pend = NoCall
           /\ threads' = threads]_vars

-----------------------------------------------------------------------------
(* C12 *)

IsPush(h) ==
    IsEvent(h) /\ Has(tasks[h].data, "ref") /\ ~Has(tasks[h].data, "pull_request")
        /\ ~Has(tasks[h].data, "review") /\ ~Has(tasks[h].data, "comment")

\* the ref ends in the segment branch: branch is its last token, after a "/" or alone
EndsInSegment(ref, branch) ==
    /\ Len(ref) > 0
    /\ ref[Len(ref)] = branch
    /\ Len(ref) = 1 \/ ref[Len(ref) - 1] = "/"

PushedTracked(h) == \E b \in {"main", "test", "develop"} : EndsInSegment(tasks[h].data.ref, b)

\* C12: a push whose ref's last path segment is main, test or develop makes (the
\* channel being found) exactly one channel.send, of the environment update naming
\* that segment, which the channel holds next iff the platform accepts it; a push to
\* any other ref makes no call and sends nothing; no step of a push changes a thread.
C12_PushSendsOneUpdate ==
    [][\A h \in Tasks :
        /\ (IsPush(h) /\ Starts(h))
           => IF PushedTracked(h) /\ channelFound
              THEN /\ tasks'[h].pc = "channel_send"
                   /\ tasks'[h].pend =
                        [op |-> "channel_send",
                         text |-> <<"Environment update: ",
                                    tasks[h].data.ref[Len(tasks[h].data.ref)],
                                    " branch has been updated.">>]
              ELSE /\ tasks'[h].pc = "done"
                   /\ tasks'[h].pend = NoCall
                   /\ tasks'[h].ops = <<>>
                   /\ chanMsgs' = chanMsgs
        /\ (IsPush(h) /\ Answers(h, "channel_send"))
           => /\ tasks'[h].pc = "done"
              /\ tasks'[h].pend = NoCall
              /\ Len(tasks'[h].ops) = 1
              /\ chanMsgs' = IF Accepted(h) THEN Append(chanMsgs, tasks[h].pend.text)
                             ELSE chanMsgs
        /\ (IsPush(h) /\ tasks'[h] # tasks[h]) => threads' = threads]_vars

\* A push to refs/heads/feature/main has sent its update into a channel that holds a
\* thread, and a push to refs/heads/main/hotfix has ended having sent nothing
C12_Witness ==
    /\ Len(threads) > 0
    /\ \E h \in 1..Len(tasks) :
        /\ IsPush(h) /\ tasks[h].pc = "done"
        /\ tasks[h].data.ref = <<"refs", "/", "heads", "/", "feature", "/", "main">>
        /\ Len(tasks[h].ops) = 1 /\ tasks[h].ops[1].ok
        /\ \E m \in 1..Len(chanMsgs) :
                chanMsgs[m] = <<"Environment update: ", "main", " branch has been updated.">>
    /\ \E h \in 1..Len(tasks) :
        /\ IsPush(h) /\ tasks[h].pc = "done"
        /\ tasks[h].data.ref = <<"refs", "/", "heads", "/", "main", "/", "hotfix">>
        /\ tasks[h].ops = <<>>

-----------------------------------------------------------------------------
(* C13 *)

\* C13 (as claimed): a review or a comment on a pull request that has no thread in the
\* found channel starts the creation of the pull request's thread (into which the
\* message is then sent).
C13_LazyCreation ==
    [][\A h \in Tasks :
        (/\ IsReview(h) \/ IsIssueComment(h)
         /\ Starts(h)
         /\ channelFound
         /\ Named(RepoOf(h), NumberOf(h)) = {}
         /\ ClosedOf(RepoOf(h), NumberOf(h)) = {})
        => /\ tasks'[h].pend.op = "create_thread"
           /\ StartsWith(tasks'[h].pend.name,
                         <<"[", RepoOf(h), "]", " ", "PR", " ", "#">>
                            \o Digits(NumberOf(h)) \o <<":">>)]_vars

-----------------------------------------------------------------------------
(* C14 *)

IsDeletedComment(h) ==
    IsEvent(h) /\ Has(tasks[h].data, "comment") /\ Has(tasks[h].data, "issue")
        /\ ~Has(tasks[h].data, "pull_request") /\ ~Has(tasks[h].data, "review")
        /\ Has(tasks[h].data, "action") /\ tasks[h].data.action = "deleted"

\* C14 (as claimed): the message of a comment event depends on its action; for the
\* action deleted the message sent into the thread is a deletion notice: it is not
\* the new-comment message and does not carry the comment's body.
C14_DeletedCommentNotice ==
    [][\A h \in Tasks :
        (IsDeletedComment(h) /\ Starts(h) /\ tasks'[h].pend.op = "send")
        => LET text == tasks'[h].pend.text
           IN  /\ text[1] # "New comment by "
               /\ \A k \in 1..Len(text) : text[k] # tasks[h].data.comment.body]_vars

-----------------------------------------------------------------------------
(* C15 *)

IsSync(h) == IsTask(h) /\ tasks[h].fn = "sync_repo"

\* C15 (as claimed): once a synchronisation has ended, the origin having answered 200
\* with a list of open pull requests and the channel being found, it has raised
\* nothing and every pull request listed has a thread in the channel.
C15_SyncCreatesThreads ==
    \A h \in Tasks :
        (/\ IsSync(h) /\ tasks[h].pc = "done" /\ channelFound
         /\ tasks[h].data.status = 200 /\ Len(tasks[h].data.prs) > 0)
        => /\ tasks[h].raised = ""
           /\ \A k \in 1..Len(tasks[h].data.prs) :
                \E r \in Repos : Named(r, tasks[h].data.prs[k].number) # {}

-----------------------------------------------------------------------------
(* C16 *)

\* the first line task h logs in this step's run, "" when it logs none
FirstLogged(h) == IF tasks'[h].log = <<>> THEN "" ELSE tasks'[h].log[1]

\* the run of task h in this step makes no platform call and logs exactly lines
EndsWith(h, lines) ==
    /\ tasks'[h].pc = "done"
    /\ tasks'[h].pend = NoCall
    /\ tasks'[h].log = lines

\* C16: an event is dispatched by the first matching rule of: (1) pull_request and
\* action present: opened goes to the opened handler, closed or merged to the closure
\* handler, any other action does nothing (also with a review or comment present);
\* (2) else review present: the review handler (which fails on its first line when
\* pull_request is absent); (3) else comment present: the comment handler (which
\* gives up when neither issue nor pull_request is present); (4) else ref present:
\* the push handler; (5) otherwise the event is logged as unknown and no call made.
C16_DispatchOrder ==
    [][\A h \in Tasks :
        (IsEvent(h) /\ Starts(h))
        => LET d == tasks[h].data
           IN  IF Has(d, "pull_request") /\ Has(d, "action")
               THEN IF d.action = "opened" THEN FirstLogged(h) = "info: Handling PR"
                    ELSE IF d.action \in {"closed", "merged"}
                         THEN FirstLogged(h) = "info: Handling closure"
                    ELSE EndsWith(h, <<>>)
               ELSE IF Has(d, "review")
               THEN IF Has(d, "pull_request") THEN FirstLogged(h) = "info: Handling review"
                    ELSE EndsWith(h, <<"error: handle_github_event", "KeyError">>)
               ELSE IF Has(d, "comment")
               THEN IF Has(d, "issue") \/ Has(d, "pull_request")
                    THEN FirstLogged(h) = "info: Handling comment"
                    ELSE EndsWith(h, <<"warning: no PR number">>)
               ELSE IF Has(d, "ref") THEN FirstLogged(h) = "info: Handling push"
               ELSE EndsWith(h, <<"warning: unknown event type">>)]_vars

\* An event with pull_request, review and the action submitted has ended having done
\* nothing, the thread of its pull request being in the channel
C16_Witness ==
    \E h \in 1..Len(tasks) :
        /\ IsEvent(h) /\ tasks[h].pc = "done"
        /\ Has(tasks[h].data, "pull_request") /\ Has(tasks[h].data, "review")
        /\ Has(tasks[h].data, "action") /\ tasks[h].data.action = "submitted"
        /\ Has(tasks[h].data, "comment") /\ Has(tasks[h].data, "ref")
        /\ tasks[h].log = <<>> /\ tasks[h].ops = <<>>
        /\ Named(RepoOf(h), 42) # {}

-----------------------------------------------------------------------------
(* C17 *)

\* the run that starts task h in this step ends in a caught exception
FailsInFirstRun(h) ==
    /\ Starts(h)
    /\ \E k \in 1..Len(tasks'[h].log) :
            tasks'[h].log[k] \in {"KeyError", "TypeError", "AttributeError"}

\* the platform rejects the call task h awaits in this step
IsRejected(h) ==
    /\ IsTask(h)
    /\ Len(tasks'[h].ops) = Len(tasks[h].ops) + 1
    /\ ~Accepted(h)

\* the step ends task h and touches nothing else: the threads and the channel keep
\* what completed operations gave them, every other task is as it was, the loop runs
Contained(h) ==
    /\ tasks'[h].pc = "done"
    /\ tasks'[h].pend = NoCall
    /\ tasks'[h].raised = ""
    /\ SubSeq(tasks'[h].ops, 1, Len(tasks[h].ops)) = tasks[h].ops
    /\ threads' = threads
    /\ chanMsgs' = chanMsgs
    /\ channelFound' = channelFound
    /\ loop' = "running"
    /\ Len(tasks') = Len(tasks)
    /\ \A j \in 1..Len(tasks) : j # h => tasks'[j] = tasks[j]

\* C17: no exception leaves the processing of an event; a step in which an event
\* fails (a missing payload field or a wrong call in its first run, a platform call
\* rejected later, also inside create_pr_thread and close_pr_thread) ends that event
\* only and changes neither threads, channel nor any other task; and every task
\* handed to the loop and not yet run can be run.
C17_FailuresContained ==
    [][\A h \in Tasks :
        /\ (IsTask(h) /\ IsEvent(h)) => tasks'[h].raised = ""
        /\ (IsEvent(h) /\ FailsInFirstRun(h)) => Contained(h)
        /\ (/\ IsTask(h)
            /\ tasks[h].fn \in {"handle_github_event", "create_pr_thread", "close_pr_thread"}
            /\ IsRejected(h)) => Contained(h)
        /\ (IsTask(h) /\ tasks[h].pc = "start") => ENABLED RunTask(h)]_vars

\* A thread creation was rejected at its second call, an event lacking pull_request
\* failed with a KeyError, and a later review reached the thread all the same
C17_Witness ==
    \E i, j, k \in 1..Len(tasks) :
        /\ i < j /\ j < k
        /\ tasks[i].fn = "create_pr_thread" /\ tasks[i].pc = "done"
        /\ Len(tasks[i].ops) = 2 /\ tasks[i].ops[1].ok /\ ~tasks[i].ops[2].ok
        /\ IsEvent(j) /\ tasks[j].pc = "done" /\ ~Has(tasks[j].data, "pull_request")
        /\ tasks[j].log = <<"error: handle_github_event", "KeyError">>
        /\ IsReview(k) /\ tasks[k].pc = "done"
        /\ Len(tasks[k].ops) = 1 /\ tasks[k].ops[1].ok
        /\ \E t \in Named(RepoOf(k), NumberOf(k)) :
                Len(threads[t].msgs) = 1 /\ threads[t].msgs[1][1] = "New review by "

-----------------------------------------------------------------------------
(* C18 *)

\* C18: when get_channel gives no channel, the run of any event (opened, closed,
\* review, comment, push to a tracked branch) and of any creation of a thread ends
\* at once, having awaited no platform call, raised nothing and changed neither
\* threads, channel nor any other task; no task ever makes a call, and every task
\* handed to the loop and not yet run can be run.
C18_ChannelNotFoundAborts ==
    [][~channelFound =>
        \A h \in Tasks :
            /\ (/\ Starts(h)
                /\ tasks[h].fn \in {"handle_github_event", "create_pr_thread"})
               => Contained(h) /\ tasks'[h].ops = <<>>
            /\ IsTask(h) => tasks'[h].pend = NoCall /\ tasks'[h].ops = <<>>
            /\ (IsTask(h) /\ tasks[h].pc = "start") => ENABLED RunTask(h)]_vars

\* With no channel found, a review, a push to main and an opened pull request have
\* been handled one after the other, each ending in its own caught error
C18_Witness ==
    /\ ~channelFound
    /\ threads = <<>> /\ chanMsgs = <<>>
    /\ Len(tasks) = 3
    /\ IsReview(1) /\ IsPush(2) /\ IsOpened(3)
    /\ tasks[2].data.ref = <<"refs", "/", "heads", "/", "main">>
    /\ \A h \in 1..3 : tasks[h].pc = "done" /\ tasks[h].ops = <<>> /\ tasks[h].raised = ""
    /\ tasks[1].log = <<"info: Handling review", "error: handle_pr_review", "AttributeError">>
    /\ tasks[2].log = <<"info: Handling push", "error: handle_push", "AttributeError">>
    /\ tasks[3].log = <<"info: Handling PR", "error: handle_pull_request", "TypeError">>

-----------------------------------------------------------------------------
(* C19 *)

\* the accepted channel.create_thread calls: their task and place among its calls
Creations ==
    {c \in (1..Len(tasks)) \X (1..2) :
        /\ c[2] <= Len(tasks[c[1]].ops)
        /\ tasks[c[1]].ops[c[2]].call.op = "create_thread"
        /\ tasks[c[1]].ops[c[2]].ok}

\* the numbers of the pull requests thread i of the channel was created for
CreatedFor(i) ==
    {tasks[c[1]].ops[c[2]].call.pr.number :
        c \in {d \in Creations : tasks[d[1]].ops[d[2]].call.name = threads[i].name}}

\* C19: the thread a review or comment on pull request n is sent into was created
\* for pull request n and for no other (4 and 42 never meet); and the name of every
\* thread created for (repository, number) starts with "[repository] PR #number:",
\* whatever its title.
C19_LookupNeverCrosses ==
    [][/\ \A h \in Tasks :
            (IsEvent(h) /\ RefersToPR(h) /\ Starts(h) /\ tasks'[h].pend.op = "send")
            => CreatedFor(tasks'[h].pend.thread) = {NumberOf(h)}
       /\ \A c \in Creations :
            LET call == tasks[c[1]].ops[c[2]].call
            IN  StartsWith(call.name,
                           <<"[", tasks[c[1]].data.repo_name, "]", " ", "PR", " ", "#">>
                              \o Digits(call.pr.number) \o <<":">>)]_vars

\* The channel holds the thread of PR 42 and, after it, the thread of PR 4; a comment
\* on PR 4 was sent into the second and nothing into the first
C19_Witness ==
    /\ Len(threads) = 2
    /\ CreatedFor(1) = {42} /\ CreatedFor(2) = {4}
    /\ threads[1].msgs = <<>>
    /\ \E h \in 1..Len(tasks) :
        /\ IsIssueComment(h) /\ NumberOf(h) = 4 /\ tasks[h].pc = "done"
        /\ Len(tasks[h].ops) = 1 /\ tasks[h].ops[1].ok /\ tasks[h].ops[1].call.thread = 2
        /\ Len(threads[2].msgs) = 1 /\ threads[2].msgs[1][1] = "New comment by "

-----------------------------------------------------------------------------
(* C20 *)

\* C20 (as claimed): a call of create_pr_thread for (repository, number), made while
\* the found channel holds a thread whose name starts with "[repository] PR #number:",
\* creates no thread and returns a thread of that prefix, whatever title the call
\* carries.
C20_ExistingFoundByPrefix ==
    [][\A h \in Tasks :
        (/\ IsTask(h) /\ tasks[h].fn = "create_pr_thread"
         /\ Starts(h)
         /\ channelFound
         /\ Named(tasks[h].data.repo_name, tasks[h].data.pr.number) # {})
        => /\ tasks'[h].pc = "done"
           /\ tasks'[h].pend = NoCall
           /\ tasks'[h].ret \in Named(tasks[h].data.repo_name, tasks[h].data.pr.number)]_vars

====
